---- MODULE Spec2Model ----
(***************************************************************************)
(* Model of the scheduled WeChat article pipeline:                         *)
(*   - startCronJobs (scheduler callback: refresh() then process())        *)
(*   - WeixinWorkflow.process / processContent / generateAndUploadCover    *)
(* One workflow instance (the one workflowMap holds for the current        *)
(* weekday) is driven by successive scheduler ticks.  The provider         *)
(* adapters (scraper, summarizer, image generator, publisher, feed, ...)   *)
(* are the environment: every call returns one of its possible outcomes.   *)
(* In Spec a tick fires once the previous callback has finished; in        *)
(* SpecOverlap a tick may also fire while a callback is still suspended.   *)
(***************************************************************************)
EXTENDS Integers, Sequences, FiniteSets, TLC

\* ---------------------------------------------------------------- bounds
MaxRuns == 2          \* scheduler ticks explored
MaxFeed == 6          \* longest feed response explored
MaxDeviations == 2    \* events that differ from the nominal course

\* ------------------------------------------------------ program constants
BatchCap == 5         \* apiData.data.splice(0,5)

VARIABLES
    pc,              \* position of the scheduled callback / process()
    runs,            \* scheduler ticks fired so far
    stats,           \* this.stats  {success, failed, contents}
    feed,            \* response.data.data as received (urls of the articles)
    data,            \* apiData.data after the cap (urls of the candidates)
    processedCount,  \* let processedCount
    content,         \* const content = contents[0]  (mutated by processContent)
    mediaId,         \* let mediaId
    publishResults,  \* const publishResults = []
    notes,           \* notifications sent by the current callback
    lost,            \* positions in notes of the messages Bark did not deliver
    thrown,          \* error observed by the scheduler's catch ("none" if none)
    resp,            \* <<call, outcome>> of the provider call awaited last
    statsAtStart,    \* value of this.stats when the current callback began
    deviations,      \* non-nominal events drawn so far
    other            \* locals of the other callback in flight on the instance

\* what one invocation of the scheduled callback owns
locals == <<pc, feed, data, processedCount, content, mediaId, publishResults,
            notes, lost, thrown, resp, statsAtStart>>

vars == <<locals, runs, stats, deviations, other>>

NoContent == [id |-> 0, title |-> "", content |-> ""]

\* ----------------------------------------------------------- notifier
\* BarkNotifier.info / warning / error / success: records the message and
\* never raises.
Note(level, title, ref, detail) ==
    [level |-> level, title |-> title, ref |-> ref, detail |-> detail]

Notify(log, level, title, ref, detail) ==
    Append(log, Note(level, title, ref, detail))

\* ----------------------------------------------------------- helpers
\* what splice(0, n) leaves in the array instead of what it returns
SpliceRest(s, n) == SubSeq(s, n + 1, Len(s))

\* Array.prototype.splice(0, n) returns the removed elements: the first n.
SpliceFirst(s, n) == SubSeq(s, 1, IF Len(s) < n THEN Len(s) ELSE n)

\* The feed answers with one record per article; the url identifies it.
Feed(n) == [i \in 1..n |-> i]

\* lengths of the feed responses explored: none, one, two, and more than a
\* batch holds
FeedSizes == {0, 1, 2, MaxFeed}

\* id of the k-th content the scraper returns for url u
ContentId(u, k) == 10 * u + k

Scraped(u, k, t, b) == [id |-> ContentId(u, k), title |-> t, content |-> b]

Item == data[processedCount + 1]

\* position after the loop body: next iteration or the contents check
LoopNext(done) == IF done < Len(data) THEN "scrape" ELSE "check"

\* a non-nominal event (a provider response other than the nominal one, a
\* callback still in flight at the next tick) may be drawn while the budget
\* lasts
CanDeviate == deviations < MaxDeviations

\* the locals of a callback that is not running
IdleLocals ==
    [pc |-> "idle", feed |-> <<>>, data |-> <<>>, processedCount |-> 0,
     content |-> NoContent, mediaId |-> "", publishResults |-> <<>>,
     notes |-> <<>>, lost |-> {}, thrown |-> "none",
     resp |-> <<"none", "none">>,
     statsAtStart |-> [success |-> 0, failed |-> 0, contents |-> 0]]

Init ==
    /\ pc = "idle"
    /\ runs = 0
    /\ stats = [success |-> 0, failed |-> 0, contents |-> 0]
    /\ feed = <<>>
    /\ lost = {}
    /\ other = IdleLocals
    /\ data = <<>>
    /\ processedCount = 0
    /\ content = NoContent
    /\ mediaId = ""
    /\ publishResults = <<>>
    /\ notes = <<>>
    /\ thrown = "none"
    /\ resp = <<"none", "none">>
    /\ statsAtStart = stats
    /\ deviations = 0

\* ------------------------------------------------ notification titles
\* (the source's titles, transliterated)
TStart    == "workflow-start"            \* "工作流开始"
TBalance  == "DeepSeek"                  \* "DeepSeek" / "余额小于一元"
TApiFail  == "api-request-failed"        \* "API 请求失败"
TNoData   == "data-source-error"         \* "数据源错误"
TItemFail == "content-processing-failed" \* "内容处理失败"
TAbort    == "workflow-terminated"       \* "工作流终止"
TPartial  == "workflow-done-partial"     \* "工作流完成(部分失败)"
TDone     == "workflow-done"             \* "工作流完成"
TFailed   == "workflow-failed"           \* "工作流失败"

MsgNoApi     == "api-url-not-configured" \* "API URL 未配置，..."
MsgEmptyFeed == "api-returned-no-data"   \* "API 返回数据为空"
MsgNoContent == "nothing-processed"      \* "未成功处理任何内容"
MsgNoCover   == "cover-generation-failed" \* "封面图片生成失败"
KeepOriginal == "keep-original"          \* "保留原始内容"
PhTitle      == "untitled"               \* "无标题"
PhContent    == "content-processing-failed-body" \* "内容处理失败"

\* ------------------------------------------------------- scheduler
\* cron callback: picks the weekday's workflow and starts refresh().
\* The locals of process() are fresh for every invocation.
Tick ==
    /\ pc = "idle"
    /\ feed' = <<>>
    /\ lost' = {}
    /\ UNCHANGED other
    /\ runs < MaxRuns
    /\ runs' = runs + 1
    /\ pc' = "refresh"
    /\ data' = <<>>
    /\ processedCount' = 0
    /\ content' = NoContent
    /\ mediaId' = ""
    /\ publishResults' = <<>>
    /\ notes' = <<>>
    /\ thrown' = "none"
    /\ resp' = <<"none", "none">>
    /\ statsAtStart' = stats
    /\ UNCHANGED <<stats, deviations>>

\* Refresh whose rejection is not waited for: process() starts anyway
RefreshNotAwaited ==
    /\ pc = "refresh"
    /\ UNCHANGED <<feed, lost, other>>
    /\ \/ /\ resp' = <<"refresh", "ok">>
          /\ UNCHANGED deviations
       \/ /\ CanDeviate
          /\ deviations' = deviations + 1
          /\ resp' = <<"refresh", "raise">>
    /\ pc' = "start"
    /\ UNCHANGED <<runs, stats, data, processedCount, content, mediaId,
                   publishResults, notes, thrown, statsAtStart>>

\* await workflow.refresh(): a raise skips process() and lands in the
\* scheduler's catch.
Refresh ==
    /\ pc = "refresh"
    /\ UNCHANGED <<feed, lost, other>>
    /\ \/ /\ resp' = <<"refresh", "ok">>
          /\ pc' = "start"
          /\ UNCHANGED <<thrown, deviations>>
       \/ /\ CanDeviate
          /\ deviations' = deviations + 1
          /\ resp' = <<"refresh", "raise">>
          /\ thrown' = "refresh"
          /\ pc' = "idle"
    /\ UNCHANGED <<runs, stats, data, processedCount, content, mediaId,
                   publishResults, notes, statsAtStart>>

\* Fatal without the notification in the catch block
FatalNoNotify(log, msg) ==
    /\ notes' = log
    /\ thrown' = msg
    /\ pc' = "idle"

\* Fatal without the rethrow: the scheduler sees a normal return
FatalSwallow(log, msg) ==
    /\ notes' = Notify(log, "error", TFailed, 0, msg)
    /\ thrown' = "none"
    /\ pc' = "idle"

\* catch (error) of process(): notify, rethrow; the scheduler's catch logs.
Fatal(log, msg) ==
    /\ notes' = Notify(log, "error", TFailed, 0, msg)
    /\ thrown' = msg
    /\ pc' = "idle"

\* process(): "=== 开始执行微信工作流 ===" and the start notification.
Start ==
    /\ pc = "start"
    /\ UNCHANGED <<feed, lost, other>>
    /\ notes' = Notify(notes, "info", TStart, 0, "")
    /\ pc' = "balance"
    /\ UNCHANGED <<runs, stats, data, processedCount, content, mediaId,
                   publishResults, thrown, resp, statsAtStart, deviations>>

\* getCNYBalance() and the advisory low-balance warning.
CheckBalance ==
    /\ pc = "balance"
    /\ UNCHANGED <<feed, lost, other>>
    /\ \/ /\ resp' = <<"getCNYBalance", "enough">>
          /\ pc' = "sources"
          /\ UNCHANGED <<notes, thrown, deviations>>
       \/ /\ CanDeviate
          /\ deviations' = deviations + 1
          /\ \/ /\ resp' = <<"getCNYBalance", "low">>
                /\ notes' = Notify(notes, "warning", TBalance, 0, "low")
                /\ pc' = "sources"
                /\ UNCHANGED thrown
             \/ /\ resp' = <<"getCNYBalance", "raise">>
                /\ Fatal(notes, "getCNYBalance")
    /\ UNCHANGED <<runs, stats, data, processedCount, content, mediaId,
                   publishResults, statsAtStart>>

\* getCronSources() and the check of sourceConfigs.All.api.
GetSources ==
    /\ pc = "sources"
    /\ UNCHANGED <<feed, lost, other>>
    /\ \/ /\ resp' = <<"getCronSources", "ok">>
          /\ pc' = "fetch"
          /\ UNCHANGED <<notes, thrown, deviations>>
       \/ /\ CanDeviate
          /\ deviations' = deviations + 1
          /\ \/ /\ resp' = <<"getCronSources", "raise">>
                /\ Fatal(notes, "getCronSources")
             \/ /\ resp' = <<"getCronSources", "no-api">>
                /\ Fatal(notes, MsgNoApi)
    /\ UNCHANGED <<runs, stats, data, processedCount, content, mediaId,
                   publishResults, statsAtStart>>

\* axios.get(apiUrl), the cap, and the empty-feed check.
FetchFeed ==
    /\ pc = "fetch"
    /\ UNCHANGED <<lost, other>>
    /\ \/ \E n \in FeedSizes :
            LET capped == SpliceFirst(Feed(n), BatchCap) IN
            /\ feed' = Feed(n)
            /\ IF Len(capped) = 0
               THEN /\ resp' = <<"axios.get", "empty">>
                    /\ Fatal(Notify(notes, "error", TNoData, 0,
                                    MsgEmptyFeed), MsgEmptyFeed)
                    /\ UNCHANGED <<data, deviations>>
               ELSE /\ resp' = <<"axios.get", "data">>
                    /\ data' = capped
                    /\ pc' = "scrape"
                    /\ UNCHANGED <<notes, thrown, deviations>>
       \/ /\ CanDeviate
          /\ deviations' = deviations + 1
          /\ resp' = <<"axios.get", "raise">>
          /\ Fatal(Notify(notes, "error", TApiFail, 0, "axios"), "axios")
          /\ UNCHANGED <<feed, data>>
    /\ UNCHANGED <<runs, stats, processedCount, content, mediaId,
                   publishResults, statsAtStart>>

\* ------------------------------------------------------- item loop
\* catch (error) of the loop body, then progress.update(++processedCount).
ItemCatch(log, err) ==
    /\ stats' = [stats EXCEPT !.failed = @ + 1]
    /\ notes' = Notify(log, "warning", TItemFail, Item, err)
    /\ processedCount' = processedCount + 1
    /\ pc' = LoopNext(processedCount + 1)
    /\ content' = NoContent
    /\ mediaId' = ""

\* what scrape(url) resolves to: k contents (k = 0: nothing extractable)
ScrapeResult(u, k, t, b) == [j \in 1..k |-> Scraped(u, j, t, b)]

\* const content = contents[0]
FirstContent(contents) == contents[1]

\* SkipEmpty that reports the skipped url like a failed item
SkipEmptyWarns(log) ==
    /\ stats' = [stats EXCEPT !.failed = @ + 1]
    /\ processedCount' = processedCount + 1
    /\ pc' = LoopNext(processedCount + 1)
    /\ notes' = Notify(log, "warning", TItemFail, Item, "empty")
    /\ UNCHANGED <<content, mediaId>>

\* if (contents.length === 0) { failed++; progress.update(...); continue; }
SkipEmpty(log) ==
    /\ stats' = [stats EXCEPT !.failed = @ + 1]
    /\ processedCount' = processedCount + 1
    /\ pc' = LoopNext(processedCount + 1)
    /\ notes' = log
    /\ UNCHANGED <<content, mediaId>>

\* fireCrawlScraper.scrape(item.url) and the empty-result skip.
ScrapeItem ==
    /\ pc = "scrape"
    /\ UNCHANGED <<feed, lost, other>>
    /\ \/ \E k \in 0..2, t \in {"", "orig"}, b \in {"", "orig"} :
            LET contents == ScrapeResult(Item, k, t, b) IN
            IF Len(contents) = 0
            THEN /\ CanDeviate
                 /\ deviations' = deviations + 1
                 /\ resp' = <<"scrape", "empty">>
                 /\ SkipEmpty(notes)
            ELSE /\ resp' = <<"scrape", "contents">>
                 /\ content' = FirstContent(contents)
                 /\ pc' = "summarize"
                 /\ UNCHANGED <<stats, notes, processedCount, mediaId,
                                deviations>>
       \/ /\ CanDeviate
          /\ deviations' = deviations + 1
          /\ resp' = <<"scrape", "raise">>
          /\ ItemCatch(notes, "scrape")
    /\ UNCHANGED <<runs, data, publishResults, thrown, statsAtStart>>

\* OrElse that always takes the placeholder
OrElseAlways(v, placeholder) == placeholder

\* content.title || "无标题",  content.content || "内容处理失败"
OrElse(v, placeholder) == IF v = "" THEN placeholder ELSE v

\* processContent(content): summarize, or fall back and warn.
ProcessContent ==
    /\ pc = "summarize"
    /\ UNCHANGED <<feed, lost, other>>
    /\ \/ /\ resp' = <<"summarize", "ok">>
          /\ content' = [content EXCEPT !.title = "summary-title",
                                        !.content = "summary-body"]
          /\ UNCHANGED <<notes, deviations>>
       \/ /\ CanDeviate
          /\ deviations' = deviations + 1
          /\ resp' = <<"summarize", "raise">>
          /\ notes' = Notify(notes, "warning", TItemFail, content.id,
                             KeepOriginal)
          /\ content' = [content EXCEPT
                            !.title = OrElse(content.title, PhTitle),
                            !.content = OrElse(content.content, PhContent)]
    /\ pc' = "cover"
    /\ UNCHANGED <<runs, stats, data, processedCount, mediaId,
                   publishResults, thrown, statsAtStart>>

\* failure points of generateAndUploadCover, in call order
CoverErrors == {"generateImage", "waitForCompletion", MsgNoCover,
                "uploadImage"}

\* what the image generator and the upload can answer, by the first call
\* that does not deliver: generateImage raises, waitForCompletion raises
\* (task failed or timed out), the task completes without a result url,
\* uploadImage raises; "ok" when all three deliver
CoverAnswers == {"ok", "generateImage", "waitForCompletion", "no-url",
                 "uploadImage"}

\* CoverThrows that lets a completed task without url through
CoverThrowsIgnoresNoUrl(answer) ==
    IF answer = "no-url" THEN "ok" ELSE answer

\* the error generateAndUploadCover throws for an answer ("ok": none): the
\* provider's own error, or the error of the url check
CoverThrows(answer) ==
    IF answer = "no-url" THEN MsgNoCover ELSE answer

\* mediaId = await this.generateAndUploadCover(article.title)
GenerateAndUploadCover ==
    /\ pc = "cover"
    /\ UNCHANGED <<feed, lost, other>>
    /\ \E answer \in CoverAnswers :
          /\ answer # "ok" => CanDeviate
          /\ deviations' = IF answer = "ok" THEN deviations
                           ELSE deviations + 1
          /\ resp' = <<"cover", answer>>
          /\ IF CoverThrows(answer) = "ok"
             THEN /\ mediaId' = "media"
                  /\ pc' = "publish"
                  /\ UNCHANGED <<stats, notes, processedCount, content>>
             ELSE ItemCatch(notes, CoverThrows(answer))
    /\ UNCHANGED <<runs, data, publishResults, thrown, statsAtStart>>

PublishStatus == {"published", "draft", "failed"}

\* CountPublished that counts only a published or draft result
CountPublishedIfOk(s, st) ==
    IF st \in {"published", "draft"}
    THEN [s EXCEPT !.success = @ + 1, !.contents = @ + 1]
    ELSE s

\* this.stats.success++; this.stats.contents++  (whatever the status st)
CountPublished(s, st) == [s EXCEPT !.success = @ + 1, !.contents = @ + 1]

\* renderer.render([article]); publisher.publish(...); push; success++,
\* contents++; progress.update(++processedCount).
PublishItem ==
    /\ pc = "publish"
    /\ UNCHANGED <<feed, lost, other>>
    /\ \/ \E st \in PublishStatus :
            /\ st # "published" => CanDeviate
            /\ deviations' = IF st = "published" THEN deviations
                             ELSE deviations + 1
            /\ resp' = <<"publish", st>>
            /\ publishResults' = Append(publishResults,
                                        [item |-> Item, status |-> st])
            /\ stats' = CountPublished(stats, st)
            /\ processedCount' = processedCount + 1
            /\ pc' = LoopNext(processedCount + 1)
            /\ content' = NoContent
            /\ mediaId' = ""
            /\ UNCHANGED notes
       \/ /\ CanDeviate
          /\ deviations' = deviations + 1
          /\ \E err \in {"render", "publish"} :
                /\ resp' = <<err, "raise">>
                /\ ItemCatch(notes, err)
          /\ UNCHANGED publishResults
    /\ UNCHANGED <<runs, data, thrown, statsAtStart>>

\* ------------------------------------------------------- run end
\* if (this.stats.contents === 0) { notifier.error(...); return; }
CheckContents ==
    /\ pc = "check"
    /\ UNCHANGED <<feed, lost, other>>
    /\ IF stats.contents = 0
       THEN /\ notes' = Notify(notes, "error", TAbort, 0, MsgNoContent)
            /\ pc' = "idle"
       ELSE /\ pc' = "report"
            /\ UNCHANGED notes
    /\ UNCHANGED <<runs, stats, data, processedCount, content, mediaId,
                   publishResults, thrown, resp, statsAtStart, deviations>>

RECURSIVE CountOk(_)
\* publishResults.filter(r => r.status === "published" || r.status === "draft").length
CountOk(rs) ==
    IF rs = <<>> THEN 0
    ELSE (IF Head(rs).status \in {"published", "draft"} THEN 1 ELSE 0)
         + CountOk(Tail(rs))

\* the completion report and the terminal notification
Report ==
    /\ pc = "report"
    /\ UNCHANGED <<feed, lost, other>>
    /\ LET successCount == CountOk(publishResults)
           failedCount == Len(publishResults) - successCount
       IN  IF stats.failed > 0 \/ failedCount > 0
           THEN notes' = Notify(notes, "warning", TPartial, 0, "summary")
           ELSE notes' = Notify(notes, "success", TDone, 0, "summary")
    /\ pc' = "idle"
    /\ UNCHANGED <<runs, stats, data, processedCount, content, mediaId,
                   publishResults, thrown, resp, statsAtStart, deviations>>

\* a delivery failure that is not absorbed: it reaches the caller
NotifyRaises ==
    /\ notes # <<>>
    /\ Len(notes) \notin lost
    /\ pc # "idle"
    /\ CanDeviate
    /\ deviations' = deviations + 1
    /\ lost' = lost \cup {Len(notes)}
    /\ thrown' = "notify"
    /\ pc' = "idle"
    /\ UNCHANGED <<runs, stats, feed, data, processedCount, content, mediaId,
                   publishResults, notes, resp, statsAtStart, other>>

\* the notifier fails to deliver the message it was last given; the
\* failure is absorbed inside the notifier and the caller resumes as after
\* a delivered one
NotifyDropped ==
    /\ notes # <<>>
    /\ Len(notes) \notin lost
    /\ CanDeviate
    /\ deviations' = deviations + 1
    /\ lost' = lost \cup {Len(notes)}
    /\ UNCHANGED <<pc, runs, stats, feed, data, processedCount, content,
                   mediaId, publishResults, notes, thrown, resp,
                   statsAtStart, other>>

Next ==
    \/ Tick
    \/ Refresh
    \/ Start
    \/ CheckBalance
    \/ GetSources
    \/ FetchFeed
    \/ ScrapeItem
    \/ ProcessContent
    \/ GenerateAndUploadCover
    \/ PublishItem
    \/ CheckContents
    \/ Report
    \/ NotifyDropped

Spec == Init /\ [][Next]_vars

\* ------------------------------------------------- overlapping callbacks
\* cron.schedule fires the async callback at every tick and does not wait
\* for the promise of the previous one: while a callback is suspended at an
\* await, the event loop may run the other callback of the same instance
\* (a new tick, or one suspended earlier).  this.stats is shared, the locals
\* are per invocation.  Leaving a suspended callback for the other one is
\* drawn from the budget of non-nominal events (it counts double); going back
\* to the suspended callback once the running one has finished is free.
Switch ==
    /\ pc # "idle" \/ other.pc # "idle"
    /\ IF pc = "idle"
       THEN UNCHANGED deviations
       ELSE /\ deviations + 1 < MaxDeviations
            /\ deviations' = deviations + 2
    /\ other' = [pc |-> pc, feed |-> feed, data |-> data,
                 processedCount |-> processedCount, content |-> content,
                 mediaId |-> mediaId, publishResults |-> publishResults,
                 notes |-> notes, lost |-> lost, thrown |-> thrown,
                 resp |-> resp, statsAtStart |-> statsAtStart]
    /\ pc' = other.pc
    /\ feed' = other.feed
    /\ data' = other.data
    /\ processedCount' = other.processedCount
    /\ content' = other.content
    /\ mediaId' = other.mediaId
    /\ publishResults' = other.publishResults
    /\ notes' = other.notes
    /\ lost' = other.lost
    /\ thrown' = other.thrown
    /\ resp' = other.resp
    /\ statsAtStart' = other.statsAtStart
    /\ UNCHANGED <<runs, stats>>

NextOverlap ==
    \/ Next
    \/ Switch

SpecOverlap == Init /\ [][NextOverlap]_vars

\* ================================================================ claims
ZeroStats == [success |-> 0, failed |-> 0, contents |-> 0]

\* the callback of the latest tick has finished
RunEnded == pc = "idle" /\ runs > 0

\* the item loop of the current run ran to its end
LoopEnded == Len(data) > 0 /\ processedCount = Len(data)

LastNote == notes[Len(notes)]

\* warnings sent by the item catch / by processContent
ItemWarnings == {i \in DOMAIN notes : /\ notes[i].title = TItemFail
                                      /\ notes[i].detail # KeepOriginal}
SummarizeWarnings == {i \in DOMAIN notes : /\ notes[i].title = TItemFail
                                           /\ notes[i].detail = KeepOriginal}
ScrapeWarnings == {i \in ItemWarnings : notes[i].detail = "scrape"}
ErrorNotes == {i \in DOMAIN notes : notes[i].level = "error"}
SummaryNotes == {i \in DOMAIN notes : notes[i].title \in {TPartial, TDone}}

ItemErrors == {"scrape", "render", "publish"} \cup CoverErrors

AllPublishedOk ==
    \A i \in DOMAIN publishResults :
        publishResults[i].status \in {"published", "draft"}

PublishedItems == [i \in DOMAIN publishResults |-> publishResults[i].item]

\* every stage of every item of the current run succeeded
AllStagesOk ==
    /\ LoopEnded
    /\ Len(publishResults) = Len(data)
    /\ AllPublishedOk
    /\ SummarizeWarnings = {}

\* no item of the current run was fully processed
ZeroProcessed == LoopEnded /\ publishResults = <<>>

\* C1: an error of one item is caught at the item boundary (it never reaches
\* the scheduler and the loop runs to its end), and a run in which exactly
\* one item's scrape raises, everything else succeeding, completes with
\* failed == 1.
C1_PerItemIsolation ==
    /\ thrown \notin ItemErrors
    /\ (RunEnded /\ resp[1] \in {"scrape", "cover", "render", "publish"})
          => LoopEnded
    /\ ( /\ RunEnded
         /\ LoopEnded
         /\ Cardinality(ScrapeWarnings) = 1
         /\ Len(publishResults) = Len(data) - 1
         /\ AllPublishedOk
         /\ SummarizeWarnings = {} )
          => (thrown = "none" /\ stats.failed = 1)

\* C2: when process() begins, the success, failed and contents counters
\* are all 0, whatever the number of earlier runs of the instance.
C2_StatsResetAtRunStart ==
    pc = "start" => stats = ZeroStats

\* C3: a run that fully processed no item ends with the error notification
\* of the "no content processed" exit and sends no success or partial-failure
\* summary notification.
C3_ZeroProcessedTakesNoContentExit ==
    (RunEnded /\ ZeroProcessed)
        => /\ LastNote = Note("error", TAbort, 0, MsgNoContent)
           /\ SummaryNotes = {}

\* C4: while a run is in or past its item loop, success + failed equals the
\* number of items attempted so far in that run and never exceeds the number
\* of candidates.
C4_CountersMatchAttempts ==
    pc \in {"scrape", "summarize", "cover", "publish", "check", "report"}
        => /\ stats.success + stats.failed = processedCount
           /\ stats.success + stats.failed <= Len(data)

\* C5: a run over a non-empty batch in which every stage of every item
\* succeeds ends with the clean-success notification, success == number of
\* candidates and failed == 0.
C5_AllSucceedCleanSuccess ==
    (RunEnded /\ AllStagesOk)
        => /\ LastNote = Note("success", TDone, 0, "summary")
           /\ stats.success = Len(data)
           /\ stats.failed = 0

\* C6 (as stated): a run whose feed is empty sends no notification other
\* than the error notification and leaves the counters unchanged.
C6_EmptyFeedOnlyErrorNotification ==
    (RunEnded /\ resp = <<"axios.get", "empty">>)
        => /\ \A i \in DOMAIN notes : notes[i].level = "error"
           /\ stats = statsAtStart
           /\ processedCount = 0

\* C6 (amended): a run whose feed is empty fails before any per-item stage;
\* it has sent the start notification, at most the low-balance warning, and
\* then the two error notifications (data-source, workflow-failed) and nothing
\* else; the counters are unchanged by the run.
C6_EmptyFeedFailsBeforeStages ==
    (RunEnded /\ resp = <<"axios.get", "empty">>)
        => /\ thrown = MsgEmptyFeed
           /\ Len(notes) \in {3, 4}
           /\ notes[1] = Note("info", TStart, 0, "")
           /\ Len(notes) = 4 => notes[2] = Note("warning", TBalance, 0, "low")
           /\ notes[Len(notes) - 1] = Note("error", TNoData, 0, MsgEmptyFeed)
           /\ LastNote = Note("error", TFailed, 0, MsgEmptyFeed)
           /\ stats = statsAtStart
           /\ processedCount = 0
           /\ publishResults = <<>>
           /\ content = NoContent
           /\ mediaId = ""

C6_Witness ==
    /\ RunEnded
    /\ resp = <<"axios.get", "empty">>
    /\ Len(notes) = 4
    /\ stats # ZeroStats

\* C7: when summarize raises, processContent does not propagate: the error
\* reaches nobody, one warning is sent, title and body keep their scraped
\* values (the placeholders when empty), failed is not incremented, and the
\* item goes on to cover generation like a summarized one.
C7_SummarizeFailureFallsBack ==
    [][ (pc = "summarize" /\ resp' = <<"summarize", "raise">>)
          => /\ pc' = "cover"
             /\ thrown' = thrown
             /\ stats' = stats
             /\ processedCount' = processedCount
             /\ notes' = Append(notes, Note("warning", TItemFail, content.id,
                                            KeepOriginal))
             /\ content'.id = content.id
             /\ content'.title = (IF content.title = "" THEN PhTitle
                                  ELSE content.title)
             /\ content'.content = (IF content.content = "" THEN PhContent
                                    ELSE content.content) ]_vars

\* an item whose summarization failed with a scraped title and an empty body
\* is waiting for its cover
C7_Witness ==
    /\ pc = "cover"
    /\ resp = <<"summarize", "raise">>
    /\ content.title = "orig"
    /\ content.content = PhContent

\* C8: a run that went through its item loop sends exactly one terminal
\* notification, success when the run had no stage failure and no failed
\* publish result, the partial-failure warning otherwise; a run that raised
\* sends exactly one error notification and no summary.
C8_ExactlyOneTerminalNotification ==
    (RunEnded /\ notes # <<>>)
        => /\ Cardinality(ErrorNotes \cup SummaryNotes) = 1
           /\ (LoopEnded /\ publishResults # <<>>)
                 => IF Len(publishResults) = Len(data) /\ AllPublishedOk
                    THEN LastNote.title = TDone /\ LastNote.level = "success"
                    ELSE LastNote.title = TPartial /\ LastNote.level = "warning"
           /\ thrown # "none"
                 => Cardinality(ErrorNotes) = 1 /\ SummaryNotes = {}

\* C9: publishResults holds at most one entry per candidate, in candidate
\* order; and a 5-candidate run in which only candidate 3 scrapes empty ends
\* with success == 4, failed == 1, four results for candidates 1,2,4,5 and
\* the partial-failure notification.
C9_FiveBatchThirdEmpty ==
    /\ \A i, j \in DOMAIN publishResults :
          i < j => publishResults[i].item < publishResults[j].item
    /\ ( /\ RunEnded
         /\ Len(data) = 5
         /\ PublishedItems = <<1, 2, 4, 5>>
         /\ AllPublishedOk
         /\ ItemWarnings = {}
         /\ SummarizeWarnings = {} )
          => /\ stats.success = 4
             /\ stats.failed = 1
             /\ LastNote = Note("warning", TPartial, 0, "summary")

\* C10 (as stated): feed unavailable, feed empty and zero items processed
\* each leave process() as a raised error after an error notification, and no
\* item-level error reaches the scheduler.
C10_FatalConditionsPropagate ==
    RunEnded
        => /\ ( \/ resp = <<"axios.get", "raise">>
                \/ resp = <<"axios.get", "empty">>
                \/ ZeroProcessed )
                 => (thrown # "none" /\ ErrorNotes # {})
           /\ thrown \notin ItemErrors

\* C10 (amended): feed unavailable and feed empty leave process() as a raised
\* error after the error notification; a run that went through its item loop,
\* also one that processed zero items, returns normally; no item-level error
\* reaches the scheduler.
C10_FeedFatalPropagatesLoopReturns ==
    RunEnded
        => /\ resp = <<"axios.get", "raise">>
                 => /\ thrown = "axios"
                    /\ LastNote = Note("error", TFailed, 0, "axios")
           /\ resp = <<"axios.get", "empty">>
                 => /\ thrown = MsgEmptyFeed
                    /\ LastNote = Note("error", TFailed, 0, MsgEmptyFeed)
           /\ LoopEnded => thrown = "none"
           /\ thrown \notin ItemErrors

\* a first run whose only candidate failed in the publish call
C10_Witness ==
    /\ RunEnded
    /\ ZeroProcessed
    /\ resp = <<"publish", "raise">>
    /\ thrown = "none"
    /\ LastNote = Note("error", TAbort, 0, MsgNoContent)

\* C11: an item counts as fully processed only when its publish ended as
\* published or draft, so a run whose publish calls all return status failed
\* has no processed item and ends with the "no content processed" error, not
\* with a summary notification.
C11_FailedPublishIsNotProcessed ==
    /\ stats.contents - statsAtStart.contents <= CountOk(publishResults)
    /\ ( /\ RunEnded
         /\ LoopEnded
         /\ Len(publishResults) = Len(data)
         /\ \A i \in DOMAIN publishResults :
               publishResults[i].status = "failed" )
          => /\ LastNote = Note("error", TAbort, 0, MsgNoContent)
             /\ SummaryNotes = {}

\* position inside process()
InProcess(p) == p \notin {"idle", "refresh"}

\* C12: two executions of process() on one instance never overlap: no
\* callback is started or in flight on the instance while another one is
\* suspended inside process().
C12_RunsNeverOverlap ==
    /\ ~(InProcess(pc) /\ other.pc # "idle")
    /\ ~(InProcess(other.pc) /\ pc # "idle")

\* C13: publish is reached only with a scraped content of the item, after
\* the summarization step and after a cover answer that delivered a media
\* id, in this order; when the cover generation fails, times out, completes
\* without a url, or the upload fails, publish is not called for the item,
\* the item counts as one failed with one warning, and the loop goes on.
C13_PublishOnlyAfterCover ==
    /\ [](pc = "summarize" => /\ resp = <<"scrape", "contents">>
                              /\ content.id = ContentId(Item, 1))
    /\ [](pc = "cover" => /\ resp[1] = "summarize"
                          /\ content.id = ContentId(Item, 1)
                          /\ content.title # "")
    /\ [](pc = "publish" => /\ resp = <<"cover", "ok">>
                            /\ mediaId = "media"
                            /\ content.id = ContentId(Item, 1)
                            /\ content.title # "")
    /\ [][ (pc = "cover" /\ resp'[1] = "cover" /\ resp'[2] # "ok")
             => /\ pc' = LoopNext(processedCount + 1)
                /\ processedCount' = processedCount + 1
                /\ publishResults' = publishResults
                /\ stats' = [stats EXCEPT !.failed = @ + 1]
                /\ thrown' = thrown
                /\ Len(notes') = Len(notes) + 1
                /\ notes'[Len(notes')].level = "warning"
                /\ notes'[Len(notes')].title = TItemFail
                /\ notes'[Len(notes')].ref = Item ]_vars

\* after a task that completed without a url, the loop is at its next item
C13_Witness ==
    /\ pc = "scrape"
    /\ resp = <<"cover", "no-url">>
    /\ processedCount = 1
    /\ publishResults = <<>>

\* C14: a run in which a notification was not delivered is not aborted by
\* it: nothing of the notifier reaches the scheduler, a run that got a batch
\* goes through all its candidates, returns normally and ends with its
\* terminal notification call.
C14_NotificationFailureDoesNotAbort ==
    (RunEnded /\ lost # {})
        => /\ thrown # "notify"
           /\ thrown \in {"none", "getCNYBalance", "getCronSources",
                          MsgNoApi, "axios", MsgEmptyFeed}
           /\ data # <<>>
                 => /\ LoopEnded
                    /\ thrown = "none"
                    /\ LastNote.title \in {TAbort, TPartial, TDone}

\* a run that lost the warning of its first item and went on to publish the
\* second
C14_Witness ==
    /\ RunEnded
    /\ \E i \in lost : notes[i].title = TItemFail /\ notes[i].ref = 1
    /\ PublishedItems = <<2>>
    /\ LastNote.title = TPartial

\* C15: the balance check is advisory: past it a run with a low balance
\* differs from one with enough balance by one extra warning only, and the
\* check never ends the run.
C15_BalanceCheckIsAdvisory ==
    /\ RunEnded => resp[1] # "getCNYBalance"
    /\ pc = "sources"
          => /\ stats = statsAtStart
             /\ thrown = "none"
             /\ processedCount = 0
             /\ IF resp = <<"getCNYBalance", "low">>
                THEN notes = <<Note("info", TStart, 0, ""),
                               Note("warning", TBalance, 0, "low")>>
                ELSE notes = <<Note("info", TStart, 0, "")>>

\* C16: on a tick refresh() runs once and is over before process() starts;
\* when it raises, process() is not invoked on that tick; the error stays in
\* the callback's catch, and the next tick can fire.
C16_RefreshThenProcess ==
    /\ [](pc = "refresh" => /\ resp = <<"none", "none">>
                            /\ notes = <<>>)
    /\ [](pc = "start" => /\ resp = <<"refresh", "ok">>
                          /\ notes = <<>>)
    /\ []((RunEnded /\ resp = <<"refresh", "raise">>)
             => /\ thrown = "refresh"
                /\ notes = <<>>
                /\ data = <<>>
                /\ stats = statsAtStart)
    /\ []((RunEnded /\ runs < MaxRuns) => ENABLED Tick)
    /\ [][ (pc = "refresh" /\ pc' # pc)
             => /\ resp'[1] = "refresh"
                /\ pc' = (IF resp'[2] = "ok" THEN "start" ELSE "idle") ]_vars
    /\ [][ pc' = "start" => pc \in {"refresh", "start"} ]_vars

\* the first tick ended in the scheduler's catch with the error of refresh()
C16_Witness ==
    /\ RunEnded
    /\ runs = 1
    /\ resp = <<"refresh", "raise">>
    /\ thrown = "refresh"

\* C17: whatever the length of the feed, the batch of a run is the first 5
\* articles of the feed in feed order (all of them when there are fewer),
\* and a run never scrapes more than 5 urls.
C17_BatchIsFirstFive ==
    /\ Len(data) = (IF Len(feed) < 5 THEN Len(feed) ELSE 5)
    /\ \A i \in DOMAIN data : data[i] = feed[i]
    /\ processedCount <= Len(data)
    /\ processedCount
         + (IF pc \in {"summarize", "cover", "publish"} THEN 1 ELSE 0) <= 5
    /\ pc \in {"scrape", "summarize", "cover", "publish"}
          => processedCount < Len(data)

\* a run over a feed of more than 5 articles has gone through its 5
\* candidates
C17_Witness ==
    /\ RunEnded
    /\ Len(feed) > 5
    /\ Len(data) = 5
    /\ processedCount = 5

\* C18: a candidate whose scrape returns nothing is skipped silently: failed
\* goes up by one, no notification is sent, the loop moves to the next
\* candidate without summarize, cover or publish; so a run can count more
\* failed items than it sent item warnings.
C18_EmptyScrapeIsSilent ==
    /\ [][ (pc = "scrape" /\ processedCount' # processedCount
                          /\ resp' = <<"scrape", "empty">>)
             => /\ stats' = [stats EXCEPT !.failed = @ + 1]
                /\ notes' = notes
                /\ processedCount' = processedCount + 1
                /\ pc' = LoopNext(processedCount + 1)
                /\ pc' \in {"scrape", "check"}
                /\ publishResults' = publishResults
                /\ content' = NoContent
                /\ mediaId' = "" ]_vars
    /\ [](Cardinality(ItemWarnings) <= stats.failed - statsAtStart.failed)

\* a finished run with one failed item and no item warning
C18_Witness ==
    /\ RunEnded
    /\ LoopEnded
    /\ stats.failed - statsAtStart.failed = 1
    /\ ItemWarnings = {}
    /\ SummarizeWarnings = {}

\* C19: contents never exceeds success; contents goes up by exactly one
\* when, and only when, a publish call returns (whatever its status) and its
\* result is appended to publishResults; in the first run of a fresh instance
\* contents equals the number of results.
C19_ContentsCountsReturnedPublishes ==
    /\ [](stats.contents <= stats.success)
    /\ [](runs = 1 => stats.contents = Len(publishResults))
    /\ [][ stats'.contents # stats.contents
             => /\ pc = "publish"
                /\ resp'[1] = "publish"
                /\ resp'[2] \in PublishStatus
                /\ stats'.contents = stats.contents + 1
                /\ publishResults' =
                      Append(publishResults,
                             [item |-> Item, status |-> resp'[2]]) ]_vars
    /\ [][ (pc = "publish" /\ resp'[1] = "publish"
                           /\ resp'[2] \in PublishStatus)
             => /\ stats'.contents = stats.contents + 1
                /\ Len(publishResults') = Len(publishResults) + 1 ]_vars

\* a first run whose only publish call returned status failed
C19_Witness ==
    /\ runs = 1
    /\ resp = <<"publish", "failed">>
    /\ stats.contents = 1
    /\ Len(publishResults) = 1
====
